---- MODULE Spec2Model ----
(***************************************************************************)
(* The UNO rule engine: Game (start, draw, play, #gameLogic, #getDeck,     *)
(* getNextPlayer, toJSON/fromJSON) over Deck, Card and Player.             *)
(*                                                                         *)
(* A game is one record; every engine method is an operator from a game    *)
(* (and its arguments) to the set of outcomes [g, ret] the method can      *)
(* produce: g is the game when the call ends and ret is "true", "false"    *)
(* or "throw".  The outcomes are a set because Deck.shuffle and            *)
(* #getRandomFromArr read Math.random().  A call that throws leaves the    *)
(* game as it was mutated up to the throw.                                 *)
(***************************************************************************)
EXTENDS Integers, Sequences, FiniteSets, TLC

VARIABLES cardCounts, game, last, moves

vars == <<cardCounts, game, last, moves>>

(***************************************************************************)
(* Bounds of the model.                                                    *)
(***************************************************************************)
\* the values of Math.random() tried: RandSamples of them, spread evenly over
\* [0, 1) from the least to the greatest
RandSamples == 2
\* calls that change the game, after which the driver stops calling
MaxMoves == 4
\* the largest count a driver passes to draw()
MaxDrawCount == 2
\* the largest initialCards a configuration sets
MaxInitialCards == 2
\* the most players a game is constructed with
MaxPlayers == 3

(***************************************************************************)
(* Symbols.                                                                *)
(***************************************************************************)
Colors == {"RED", "GREEN", "BLUE", "YELLOW", "BLACK"}

Values == {"ZERO", "ONE", "TWO", "THREE", "FOUR", "FIVE", "SIX", "SEVEN", "EIGHT",
           "NINE", "SKIP", "REVERSE", "DRAW_TWO", "WILD", "WILD_DRAW_FOUR"}

\* the JavaScript values undefined and null where a Color is expected
Undefined == "undefined"
NullRef == "null"

\* a card reference that is null or undefined
NoCard == 0

\* Value.isWild
ValueIsWild(value) == value \in {"WILD", "WILD_DRAW_FOUR"}

\* Color.isWild
ColorIsWild(color) == color = "BLACK"

(***************************************************************************)
(* constants/cardCounts: the table insertDefaultCards walks, color by      *)
(* color and value by value.  cardCounts holds the table of the build: one *)
(* of these sub-tables of the standard 108-card distribution.              *)
(***************************************************************************)
Entry(color, value, count) == [color |-> color, value |-> value, count |-> count]

StackTable ==
    << Entry("RED", "FIVE", 1), Entry("RED", "DRAW_TWO", 2),
       Entry("BLACK", "WILD_DRAW_FOUR", 2) >>

TurnTable ==
    << Entry("RED", "FIVE", 1), Entry("RED", "SKIP", 1), Entry("RED", "REVERSE", 1),
       Entry("BLUE", "SIX", 2) >>

PairTable ==
    << Entry("RED", "FIVE", 1), Entry("RED", "DRAW_TWO", 1),
       Entry("BLACK", "WILD", 1) >>

\* a table on which a stack of DRAW_TWO can grow past its first card
DrawTwoTable ==
    << Entry("RED", "FIVE", 1), Entry("RED", "DRAW_TWO", 4) >>

CardCountTables == {StackTable, TurnTable, PairTable}

RECURSIVE ExpandCounts(_)
ExpandCounts(table) ==
    IF table = <<>> THEN <<>>
    ELSE LET e == Head(table)
         IN  [i \in 1..e.count |-> [color |-> e.color, value |-> e.value]]
             \o ExpandCounts(Tail(table))

\* the cards one insertDefaultCards() constructs, in construction order
DefaultCards == ExpandCounts(cardCounts)

DeckSize == Len(DefaultCards)

\* new Card(color, value, wild): wild = wild || (color.isWild() && value.isWild()),
\* wildPickedColor = wild ? BLACK : null
NewCard(color, value, wild) ==
    LET w == wild \/ (ColorIsWild(color) /\ ValueIsWild(value))
    IN  [color |-> color, value |-> value, wild |-> w,
         wildPickedColor |-> IF w THEN "BLACK" ELSE NullRef]

\* a card object is named by a number; g.cards[c] holds the fields of object c
ColorOf(g, c) == g.cards[c].color
ValueOf(g, c) == g.cards[c].value
WildOf(g, c) == g.cards[c].wild
PickedOf(g, c) == g.cards[c].wildPickedColor

(***************************************************************************)
(* Sequences.                                                              *)
(***************************************************************************)
Range(s) == {s[i] : i \in 1..Len(s)}

RECURSIVE Reverse(_)
Reverse(s) == IF s = <<>> THEN <<>> ELSE Reverse(Tail(s)) \o <<Head(s)>>

RemoveAt(s, i) == SubSeq(s, 1, i - 1) \o SubSeq(s, i + 1, Len(s))

\* [a[i], a[j]] = [a[j], a[i]] on 0-based positions i, j
Swap(s, i, j) ==
    [k \in 1..Len(s) |-> IF k = i + 1 THEN s[j + 1]
                         ELSE IF k = j + 1 THEN s[i + 1] ELSE s[k]]

(***************************************************************************)
(* Randomness.                                                             *)
(***************************************************************************)
\* Math.floor(Math.random() * n): 0 for the least sample, n - 1 for the greatest
RandomIndex(n) ==
    IF RandSamples < 2 THEN {0}
    ELSE {(k * (n - 1)) \div (RandSamples - 1) : k \in 0..(RandSamples - 1)}

\* Game.#getRandomFromArr: null for an empty array
GetRandomFromArr(arr) ==
    IF Len(arr) = 0 THEN {NoCard} ELSE {arr[i + 1] : i \in RandomIndex(Len(arr))}

\* Deck.shuffle: the loop from position i down to 1
RECURSIVE ShuffleFrom(_, _)
ShuffleFrom(cards, i) ==
    IF i <= 0 THEN {cards}
    ELSE UNION {ShuffleFrom(Swap(cards, i, j), i - 1) : j \in RandomIndex(i + 1)}

\* Deck.shuffle
Shuffle(cards) == ShuffleFrom(cards, Len(cards) - 1)

(***************************************************************************)
(* Deck.                                                                   *)
(***************************************************************************)
\* Deck.getTopCard(false): cards[0], undefined for an empty deck
GetTopCard(cards) == IF cards = <<>> THEN NoCard ELSE Head(cards)

\* Deck.addCard: unshift
AddCard(cards, card) == <<card>> \o cards

\* Deck.insertDefaultCards: the cards it constructs, in construction order,
\* each new Card(color, value, color === BLACK)
DefaultObjects == [k \in 1..DeckSize |->
                      NewCard(DefaultCards[k].color, DefaultCards[k].value,
                              DefaultCards[k].color = "BLACK")]

\* Deck.insertDefaultCards: the decks it can leave, its cards being the objects
\* first + 1 .. first + DeckSize; addCard puts each constructed card on top
InsertDefaultCards(first) ==
    Shuffle(Reverse([k \in 1..DeckSize |-> first + k]))

\* the test of Deck.removeCard's findIndex on element c: "hit", "miss" or "throw"
\* (c.color.color or card.color.color read through null or undefined)
RemoveTest(g, c, card) ==
    IF c = card THEN "hit"
    ELSE IF c = NoCard \/ card = NoCard THEN "throw"
    ELSE IF ColorOf(g, c) = Undefined \/ ColorOf(g, card) = Undefined THEN "throw"
    ELSE IF ColorOf(g, c) = ColorOf(g, card) /\ ValueOf(g, c) = ValueOf(g, card) THEN "hit"
    ELSE "miss"

\* Deck.removeCard's findIndex: the 1-based index found, 0 for -1, -1 for a throw
RECURSIVE FindIndex(_, _, _, _)
FindIndex(g, cards, card, i) ==
    IF i > Len(cards) THEN 0
    ELSE LET t == RemoveTest(g, cards[i], card)
         IN  IF t = "hit" THEN i
             ELSE IF t = "throw" THEN -1
             ELSE FindIndex(g, cards, card, i + 1)

\* Deck.removeCard: [cards, ret]
RemoveCard(g, cards, card) ==
    LET index == FindIndex(g, cards, card, 1)
    IN  IF index = -1 THEN [cards |-> cards, ret |-> "throw"]
        ELSE IF index = 0 THEN [cards |-> cards, ret |-> "false"]
        ELSE [cards |-> RemoveAt(cards, index), ret |-> "true"]

\* the test of Deck.getCard's find on element c, for color and value that are a
\* symbol or Undefined: "hit", "miss" or "throw" (c.color.color or c.value.value
\* read through null or undefined; color and value are not both Undefined)
GetCardTest(g, c, color, value) ==
    LET isWild == value # Undefined /\ ValueIsWild(value)
        colorShort == isWild \/ color = Undefined
    IN  IF c = NoCard THEN "throw"
        ELSE IF ~colorShort /\ ColorOf(g, c) = Undefined THEN "throw"
        ELSE IF (colorShort \/ ColorOf(g, c) = color)
                /\ (value = Undefined \/ ValueOf(g, c) = value) THEN "hit"
        ELSE "miss"

\* Deck.getCard's find: the 1-based index found, 0 for none, -1 for a throw
RECURSIVE FindCard(_, _, _, _, _)
FindCard(g, cards, color, value, i) ==
    IF i > Len(cards) THEN 0
    ELSE LET t == GetCardTest(g, cards[i], color, value)
         IN  IF t = "hit" THEN i
             ELSE IF t = "throw" THEN -1
             ELSE FindCard(g, cards, color, value, i + 1)

\* Deck.getCard on the cards of a deck: [g, card, ret]; a wild card found gets
\* wildPickedColor = color
GetCard(g, cards, color, value) ==
    IF color = Undefined /\ value = Undefined
    THEN [g |-> g, card |-> NoCard, ret |-> "null"]
    ELSE LET i == FindCard(g, cards, color, value, 1)
         IN  IF i = -1 THEN [g |-> g, card |-> NoCard, ret |-> "throw"]
             ELSE IF i = 0 THEN [g |-> g, card |-> NoCard, ret |-> "null"]
             ELSE IF WildOf(g, cards[i])
                  THEN [g |-> [g EXCEPT !.cards[cards[i]].wildPickedColor = color],
                        card |-> cards[i], ret |-> "card"]
                  ELSE [g |-> g, card |-> cards[i], ret |-> "card"]

(***************************************************************************)
(* Card.                                                                   *)
(***************************************************************************)
\* Card.isValidOn throws: the last line reads card.color.color of a top card
\* whose color is undefined
IsValidOnThrows(g, this, card, toPlay, isStacking) ==
    /\ card # NoCard
    /\ ~isStacking
    /\ ~WildOf(g, this)
    /\ ColorOf(g, card) = Undefined

\* an isValidOn that tests the wild cases before the stacking mode
IsValidOnWildFirst(g, this, card, toPlay, isStacking) ==
    IF card = NoCard THEN FALSE
    ELSE IF WildOf(g, this) /\ WildOf(g, card) THEN FALSE
    ELSE IF ~toPlay /\ WildOf(g, this) THEN TRUE
    ELSE IF isStacking
         THEN IF ValueOf(g, this) \in {"DRAW_TWO", "WILD_DRAW_FOUR"}
              THEN ValueOf(g, card) = ValueOf(g, this)
              ELSE FALSE
    ELSE IF WildOf(g, this) THEN PickedOf(g, this) # "BLACK"
    ELSE ColorOf(g, this) = ColorOf(g, card) \/ ValueOf(g, this) = ValueOf(g, card)

\* an isValidOn that shows a wild card as playable before it looks at the top
\* card's wild flag
IsValidOnShowsWild(g, this, card, toPlay, isStacking) ==
    IF card = NoCard THEN FALSE
    ELSE IF isStacking
         THEN IF ValueOf(g, this) \in {"DRAW_TWO", "WILD_DRAW_FOUR"}
              THEN ValueOf(g, card) = ValueOf(g, this)
              ELSE FALSE
    ELSE IF ~toPlay /\ WildOf(g, this) THEN TRUE
    ELSE IF WildOf(g, this) /\ WildOf(g, card) THEN FALSE
    ELSE IF WildOf(g, this) THEN PickedOf(g, this) # "BLACK"
    ELSE ColorOf(g, this) = ColorOf(g, card) \/ ValueOf(g, this) = ValueOf(g, card)

\* Card.isValidOn, where it does not throw
IsValidOn(g, this, card, toPlay, isStacking) ==
    IF card = NoCard THEN FALSE
    ELSE IF isStacking
         THEN IF ValueOf(g, this) \in {"DRAW_TWO", "WILD_DRAW_FOUR"}
              THEN ValueOf(g, card) = ValueOf(g, this)
              ELSE FALSE
    ELSE IF WildOf(g, this) /\ WildOf(g, card) THEN FALSE
    ELSE IF ~toPlay /\ WildOf(g, this) THEN TRUE
    ELSE IF WildOf(g, this) THEN PickedOf(g, this) # "BLACK"
    ELSE ColorOf(g, this) = ColorOf(g, card) \/ ValueOf(g, this) = ValueOf(g, card)

(***************************************************************************)
(* Game.                                                                   *)
(***************************************************************************)
\* a player object is named by a number (obj); currentPlayer holds the number
\* of the object it refers to, NoPlayer for null
NoPlayer == 0

\* new Player(name, id)
NewPlayer(name, id) == [obj |-> 0, name |-> name, id |-> id, hand |-> <<>>]

\* Game constructor
NewGame(players, config) ==
    [config |-> config,
     initPlayers |-> players,
     rotation |-> config.defaultRotation,
     currentPlayer |-> NoPlayer,
     state |-> "NOT_STARTED",
     stackDrawAmount |-> 0,
     discardedCards |-> <<>>,
     decks |-> <<>>,
     players |-> <<>>,
     cards |-> <<>>]

\* players.indexOf(player), 0-based, -1 when the object is no element
IndexOf(g, obj) ==
    IF \E i \in 1..Len(g.players) : g.players[i].obj = obj
    THEN (CHOOSE i \in 1..Len(g.players) :
             /\ g.players[i].obj = obj
             /\ \A j \in 1..(i - 1) : g.players[j].obj # obj) - 1
    ELSE -1

\* Game.getNextPlayer: the places (1-based) in game.players of the players it
\* can return, 0 for no player
GetNextPlayer(g, rotation, currentPlayer) ==
    LET n == Len(g.players)
        index == IndexOf(g, currentPlayer)
    IN  IF currentPlayer = NoPlayer
        THEN GetRandomFromArr([i \in 1..n |-> i])
        ELSE IF rotation = "CW"
             THEN {((index + 1) % n) + 1}
             ELSE {((index - 1 + n) % n) + 1}

\* Game.setNextPlayer
SetNextPlayer(g) ==
    {[g EXCEPT !.currentPlayer = g.players[p].obj] :
        p \in GetNextPlayer(g, g.rotation, g.currentPlayer)}

\* Game.flipDirection
FlipDirection(g) == [g EXCEPT !.rotation = IF @ = "CW" THEN "CCW" ELSE "CW"]

\* a #getDeck that peeks at the top card and leaves it among the cards it
\* shuffles
GetDeckKeepsTop(g) ==
    IF \E i \in 1..Len(g.decks) : g.decks[i] # <<>>
    THEN {[g |-> g,
           deck |-> CHOOSE i \in 1..Len(g.decks) :
                       /\ g.decks[i] # <<>>
                       /\ \A j \in 1..(i - 1) : g.decks[j] = <<>>]}
    ELSE LET topCard == GetTopCard(g.discardedCards)
         IN  {[g |-> [g EXCEPT !.discardedCards =
                                   IF topCard # NoCard THEN <<topCard>> ELSE <<>>,
                               !.decks = <<s>>],
               deck |-> 1] : s \in Shuffle(g.discardedCards)}

\* a #getDeck that recycles the whole discard pile, its top card too
GetDeckTakesTop(g) ==
    IF \E i \in 1..Len(g.decks) : g.decks[i] # <<>>
    THEN {[g |-> g,
           deck |-> CHOOSE i \in 1..Len(g.decks) :
                       /\ g.decks[i] # <<>>
                       /\ \A j \in 1..(i - 1) : g.decks[j] = <<>>]}
    ELSE {[g |-> [g EXCEPT !.discardedCards = <<>>, !.decks = <<s>>],
           deck |-> 1] : s \in Shuffle(g.discardedCards)}

\* a #getDeck that recycles nothing: an empty deck when the decks are empty
GetDeckNoReshuffle(g) ==
    IF \E i \in 1..Len(g.decks) : g.decks[i] # <<>>
    THEN {[g |-> g,
           deck |-> CHOOSE i \in 1..Len(g.decks) :
                       /\ g.decks[i] # <<>>
                       /\ \A j \in 1..(i - 1) : g.decks[j] = <<>>]}
    ELSE {[g |-> [g EXCEPT !.decks = << <<>> >>], deck |-> 1]}

\* Game.#getDeck: [g, deck], deck the place in g.decks of the deck returned
GetDeck(g) ==
    IF \E i \in 1..Len(g.decks) : g.decks[i] # <<>>
    THEN {[g |-> g,
           deck |-> CHOOSE i \in 1..Len(g.decks) :
                       /\ g.decks[i] # <<>>
                       /\ \A j \in 1..(i - 1) : g.decks[j] = <<>>]}
    ELSE LET topCard == GetTopCard(g.discardedCards)
             cardsToShuffle == IF g.discardedCards = <<>> THEN <<>>
                               ELSE Tail(g.discardedCards)
         IN  {[g |-> [g EXCEPT !.discardedCards =
                                   IF topCard # NoCard THEN <<topCard>> ELSE <<>>,
                               !.decks = <<s>>],
               deck |-> 1] : s \in Shuffle(cardsToShuffle)}

\* Game.draw, the loop of lines 159-169: [g, drawn]
RECURSIVE DrawLoop(_, _, _, _, _)
DrawLoop(g, p, deck, remaining, drawn) ==
    IF remaining <= 0 THEN {[g |-> g, drawn |-> drawn]}
    ELSE IF g.decks[deck] # <<>>
    THEN LET card == Head(g.decks[deck])
         IN  DrawLoop([g EXCEPT !.decks[deck] = Tail(@),
                                !.players[p].hand = AddCard(@, card)],
                      p, deck, remaining - 1, drawn + 1)
    ELSE UNION {IF r.g.decks[r.deck] = <<>>
                THEN {[g |-> r.g, drawn |-> drawn]}
                ELSE DrawLoop(r.g, p, r.deck, remaining, drawn) : r \in GetDeck(g)}

\* a draw() that leaves the pending amount standing when it resolves a stack
DrawCardsKeepsAmount(g, p, cards, isNext) ==
    UNION {
        LET stacked == r.g.state = "STACK_DRAW"
            n == IF stacked THEN r.g.stackDrawAmount ELSE cards
            g1 == IF stacked THEN [r.g EXCEPT !.state = "PLAYING"] ELSE r.g
        IN  UNION {
              {[g |-> g2, ret |-> IF d.drawn = n THEN "true" ELSE "false"] :
                  g2 \in IF isNext THEN SetNextPlayer(d.g) ELSE {d.g}} :
              d \in DrawLoop(g1, p, r.deck, n, 0)} :
        r \in GetDeck(g)}

\* a draw() that resolves a stack but delivers the count it was called with
DrawCardsKeepsCount(g, p, cards, isNext) ==
    UNION {
        LET stacked == r.g.state = "STACK_DRAW"
            n == cards
            g1 == IF stacked
                  THEN [r.g EXCEPT !.stackDrawAmount = 0, !.state = "PLAYING"]
                  ELSE r.g
        IN  UNION {
              {[g |-> g2, ret |-> IF d.drawn = n THEN "true" ELSE "false"] :
                  g2 \in IF isNext THEN SetNextPlayer(d.g) ELSE {d.g}} :
              d \in DrawLoop(g1, p, r.deck, n, 0)} :
        r \in GetDeck(g)}

\* Game.draw, lines 150-175, for the player at place p of game.players
DrawCards(g, p, cards, isNext) ==
    UNION {
        LET stacked == r.g.state = "STACK_DRAW"
            n == IF stacked THEN r.g.stackDrawAmount ELSE cards
            g1 == IF stacked
                  THEN [r.g EXCEPT !.stackDrawAmount = 0, !.state = "PLAYING"]
                  ELSE r.g
        IN  UNION {
              {[g |-> g2, ret |-> IF d.drawn = n THEN "true" ELSE "false"] :
                  g2 \in IF isNext THEN SetNextPlayer(d.g) ELSE {d.g}} :
              d \in DrawLoop(g1, p, r.deck, n, 0)} :
        r \in GetDeck(g)}

\* a draw() that lets every player draw
DrawAnyPlayer(g, p, cards, isNext, force) ==
    IF cards < 1 THEN {[g |-> g, ret |-> "throw"]}
    ELSE DrawCards(g, p, cards, isNext)

\* Game.draw for the player at place p of game.players
Draw(g, p, cards, isNext, force) ==
    IF cards < 1 THEN {[g |-> g, ret |-> "throw"]}
    ELSE IF ~force /\ g.players[p].obj # g.currentPlayer THEN {[g |-> g, ret |-> "false"]}
    ELSE DrawCards(g, p, cards, isNext)

\* a #gameLogic that keeps a stack pending when the next player cannot counter
DrawCardLogicKeepsStack(g, value, amount) ==
    UNION {
      LET found == IF g.config.stackCards
                   THEN GetCard(g, g.players[next].hand, Undefined, value)
                   ELSE [g |-> g, card |-> NoCard, ret |-> "null"]
          g1 == found.g
      IN  IF g.config.stackCards /\ (found.card # NoCard \/ g1.state = "STACK_DRAW")
          THEN {[g1 EXCEPT !.stackDrawAmount = @ + amount, !.state = "STACK_DRAW"]}
          ELSE UNION {{r.g : r \in Draw(g1, nx, amount, TRUE, TRUE)} :
                      nx \in GetNextPlayer(g1, g1.rotation, g1.currentPlayer)} :
      next \in GetNextPlayer(g, g.rotation, g.currentPlayer)}

\* a #gameLogic that opens a stack in the reserved state CONTEST
DrawCardLogicContest(g, value, amount) ==
    UNION {
      LET found == IF g.config.stackCards
                   THEN GetCard(g, g.players[next].hand, Undefined, value)
                   ELSE [g |-> g, card |-> NoCard, ret |-> "null"]
          g1 == found.g
      IN  IF g.config.stackCards /\ found.card # NoCard
          THEN {[g1 EXCEPT !.stackDrawAmount = @ + amount, !.state = "CONTEST"]}
          ELSE IF g1.state = "STACK_DRAW"
          THEN LET g2 == [g1 EXCEPT !.stackDrawAmount = @ + amount]
               IN  UNION {{[r.g EXCEPT !.stackDrawAmount = 0, !.state = "PLAYING"] :
                             r \in Draw(g2, nx, g2.stackDrawAmount, TRUE, TRUE)} :
                          nx \in GetNextPlayer(g2, g2.rotation, g2.currentPlayer)}
          ELSE UNION {{r.g : r \in Draw(g1, nx, amount, TRUE, TRUE)} :
                      nx \in GetNextPlayer(g1, g1.rotation, g1.currentPlayer)} :
      next \in GetNextPlayer(g, g.rotation, g.currentPlayer)}

\* a #gameLogic that sets the pending amount where the code adds to it
DrawCardLogicFlatStack(g, value, amount) ==
    UNION {
      LET found == IF g.config.stackCards
                   THEN GetCard(g, g.players[next].hand, Undefined, value)
                   ELSE [g |-> g, card |-> NoCard, ret |-> "null"]
          g1 == found.g
      IN  IF g.config.stackCards /\ found.card # NoCard
          THEN {[g1 EXCEPT !.stackDrawAmount = amount, !.state = "STACK_DRAW"]}
          ELSE IF g1.state = "STACK_DRAW"
          THEN LET g2 == [g1 EXCEPT !.stackDrawAmount = @ + amount]
               IN  UNION {{[r.g EXCEPT !.stackDrawAmount = 0, !.state = "PLAYING"] :
                             r \in Draw(g2, nx, g2.stackDrawAmount, TRUE, TRUE)} :
                          nx \in GetNextPlayer(g2, g2.rotation, g2.currentPlayer)}
          ELSE UNION {{r.g : r \in Draw(g1, nx, amount, TRUE, TRUE)} :
                      nx \in GetNextPlayer(g1, g1.rotation, g1.currentPlayer)} :
      next \in GetNextPlayer(g, g.rotation, g.currentPlayer)}

\* a #gameLogic whose forced draws leave the turn where it is (isNext false)
DrawCardLogicKeepsTurn(g, value, amount) ==
    UNION {
      LET found == IF g.config.stackCards
                   THEN GetCard(g, g.players[next].hand, Undefined, value)
                   ELSE [g |-> g, card |-> NoCard, ret |-> "null"]
          g1 == found.g
      IN  IF g.config.stackCards /\ found.card # NoCard
          THEN {[g1 EXCEPT !.stackDrawAmount = @ + amount, !.state = "STACK_DRAW"]}
          ELSE IF g1.state = "STACK_DRAW"
          THEN LET g2 == [g1 EXCEPT !.stackDrawAmount = @ + amount]
               IN  UNION {{[r.g EXCEPT !.stackDrawAmount = 0, !.state = "PLAYING"] :
                             r \in Draw(g2, nx, g2.stackDrawAmount, FALSE, TRUE)} :
                          nx \in GetNextPlayer(g2, g2.rotation, g2.currentPlayer)}
          ELSE UNION {{r.g : r \in Draw(g1, nx, amount, FALSE, TRUE)} :
                      nx \in GetNextPlayer(g1, g1.rotation, g1.currentPlayer)} :
      next \in GetNextPlayer(g, g.rotation, g.currentPlayer)}

\* Game.#gameLogic, the DRAW_TWO and WILD_DRAW_FOUR cases, amount 2 or 4
DrawCardLogic(g, value, amount) ==
    UNION {
      LET found == IF g.config.stackCards
                   THEN GetCard(g, g.players[next].hand, Undefined, value)
                   ELSE [g |-> g, card |-> NoCard, ret |-> "null"]
          g1 == found.g
      IN  IF g.config.stackCards /\ found.card # NoCard
          THEN {[g1 EXCEPT !.stackDrawAmount = @ + amount, !.state = "STACK_DRAW"]}
          ELSE IF g1.state = "STACK_DRAW"
          THEN LET g2 == [g1 EXCEPT !.stackDrawAmount = @ + amount]
               IN  UNION {{[r.g EXCEPT !.stackDrawAmount = 0, !.state = "PLAYING"] :
                             r \in Draw(g2, nx, g2.stackDrawAmount, TRUE, TRUE)} :
                          nx \in GetNextPlayer(g2, g2.rotation, g2.currentPlayer)}
          ELSE UNION {{r.g : r \in Draw(g1, nx, amount, TRUE, TRUE)} :
                      nx \in GetNextPlayer(g1, g1.rotation, g1.currentPlayer)} :
      next \in GetNextPlayer(g, g.rotation, g.currentPlayer)}

\* a #gameLogic without the two-player case of REVERSE
GameLogicPlainReverse(g, p, card) ==
    CASE ValueOf(g, card) = "REVERSE" -> {FlipDirection(g)}
      [] ValueOf(g, card) = "SKIP" -> SetNextPlayer(g)
      [] ValueOf(g, card) = "DRAW_TWO" -> DrawCardLogic(g, "DRAW_TWO", 2)
      [] ValueOf(g, card) = "WILD_DRAW_FOUR" -> DrawCardLogic(g, "WILD_DRAW_FOUR", 4)
      [] OTHER -> {g}

\* a #gameLogic in which SKIP is a plain card
GameLogicPlainSkip(g, p, card) ==
    CASE ValueOf(g, card) = "REVERSE" ->
           IF Len(g.players) = 2 THEN SetNextPlayer(FlipDirection(g))
           ELSE {FlipDirection(g)}
      [] ValueOf(g, card) = "DRAW_TWO" -> DrawCardLogic(g, "DRAW_TWO", 2)
      [] ValueOf(g, card) = "WILD_DRAW_FOUR" -> DrawCardLogic(g, "WILD_DRAW_FOUR", 4)
      [] OTHER -> {g}

\* Game.#gameLogic: the games it can leave
GameLogic(g, p, card) ==
    CASE ValueOf(g, card) = "REVERSE" ->
           IF Len(g.players) = 2 THEN SetNextPlayer(FlipDirection(g))
           ELSE {FlipDirection(g)}
      [] ValueOf(g, card) = "SKIP" -> SetNextPlayer(g)
      [] ValueOf(g, card) = "DRAW_TWO" -> DrawCardLogic(g, "DRAW_TWO", 2)
      [] ValueOf(g, card) = "WILD_DRAW_FOUR" -> DrawCardLogic(g, "WILD_DRAW_FOUR", 4)
      [] OTHER -> {g}

\* a test that lets a player play out of turn
PlayTestAnyTurn(g, p, card) ==
    LET topDiscard == GetTopCard(g.discardedCards)
        stacking == g.config.stackCards /\ g.state = "STACK_DRAW"
    IN  IF card \notin Range(g.players[p].hand) THEN "false"
        ELSE IF IsValidOnThrows(g, card, topDiscard, TRUE, stacking) THEN "throw"
        ELSE IF IsValidOn(g, card, topDiscard, TRUE, stacking) THEN "true"
        ELSE "false"

\* Game.play, the test of lines 258-262: "true", "false" or "throw"
PlayTest(g, p, card) ==
    LET topDiscard == GetTopCard(g.discardedCards)
        stacking == g.config.stackCards /\ g.state = "STACK_DRAW"
    IN  IF card \notin Range(g.players[p].hand) THEN "false"
        ELSE IF g.players[p].obj # g.currentPlayer THEN "false"
        ELSE IF IsValidOnThrows(g, card, topDiscard, TRUE, stacking) THEN "throw"
        ELSE IF IsValidOn(g, card, topDiscard, TRUE, stacking) THEN "true"
        ELSE "false"

\* Game.play, lines 271-275 on the game #gameLogic left
PlayCommit(g, p, card) ==
    LET removed == RemoveCard(g, g.players[p].hand, card)
    IN  IF removed.ret = "throw" THEN {[g |-> g, ret |-> "throw"]}
        ELSE {[g |-> g2, ret |-> "true"] :
                g2 \in SetNextPlayer([g EXCEPT !.players[p].hand = removed.cards,
                                               !.discardedCards = AddCard(@, card)])}

\* Game.#gameLogic throws: hand.getCard of lines 200 and 217 reads a null
\* element of the next player's hand
GameLogicThrows(g, p, card) ==
    /\ ValueOf(g, card) \in {"DRAW_TWO", "WILD_DRAW_FOUR"}
    /\ g.config.stackCards
    /\ \E next \in GetNextPlayer(g, g.rotation, g.currentPlayer) :
          GetCard(g, g.players[next].hand, Undefined, ValueOf(g, card)).ret = "throw"

\* Game.play for the player at place p and a card object, NoCard for null
Play(g, p, card) ==
    IF card = NoCard THEN {[g |-> g, ret |-> "throw"]}
    ELSE
    LET test == PlayTest(g, p, card)
    IN  IF test # "true" THEN {[g |-> g, ret |-> test]}
        ELSE LET g1 == IF WildOf(g, card)
                       THEN [g EXCEPT !.cards[card].color = PickedOf(g, card)]
                       ELSE g
             IN  IF GameLogicThrows(g1, p, card) THEN {[g |-> g1, ret |-> "throw"]}
                 ELSE UNION {PlayCommit(g2, p, card) : g2 \in GameLogic(g1, p, card)}

\* Game.start, lines 99-102: the decks pushed; first is the number of card
\* objects that exist already
RECURSIVE BuildDecks(_, _)
BuildDecks(first, decksNeeded) ==
    IF decksNeeded = 0 THEN {<<>>}
    ELSE {<<d>> \o rest : d \in InsertDefaultCards(first),
                          rest \in BuildDecks(first + DeckSize, decksNeeded - 1)}

\* Game.start, lines 104-111, from initial player i on (1-based): [g, ret]
RECURSIVE DealFrom(_, _)
DealFrom(g, i) ==
    IF i > Len(g.initPlayers) THEN {[g |-> g, ret |-> "true"]}
    ELSE LET p == Len(g.players) + 1
             init == g.initPlayers[i]
             player == IF init.isPlayer THEN [NewPlayer(init.name, init.id) EXCEPT !.obj = i]
                       ELSE [NewPlayer(init.name, i - 1) EXCEPT !.obj = p]
             g1 == [g EXCEPT !.players = Append(@, player)]
         IN  UNION {IF r.ret = "throw" THEN {[g |-> g, ret |-> "throw"]}
                    ELSE DealFrom(r.g, i + 1) :
                    r \in Draw(g1, p, g.config.initialCards, FALSE, TRUE)}

\* Game.start, the filter of lines 117-122 throws: c.color.color read through
\* a null element or an undefined color
FilterThrows(g, cards) ==
    \E i \in 1..Len(cards) : cards[i] = NoCard \/ ColorOf(g, cards[i]) = Undefined

\* Game.start, the filter of lines 117-122
ValidFirstCards(g, cards) ==
    SelectSeq(cards, LAMBDA c : /\ ColorOf(g, c) # "BLACK"
                                /\ ValueOf(g, c) \notin {"DRAW_TWO", "REVERSE", "SKIP"})

\* Game.start, lines 113-128 on the game the deal left
PickFirst(g) ==
    UNION {UNION {
        LET deck == r.g.decks[r.deck]
        IN  IF FilterThrows(r.g, deck)
            THEN {[g |-> [r.g EXCEPT !.currentPlayer = cur], ret |-> "throw"]}
            ELSE
            {LET g1 == [r.g EXCEPT !.currentPlayer = cur,
                                   !.discardedCards = AddCard(@, card)]
                 removed == RemoveCard(g1, deck, card)
             IN  IF removed.ret = "throw" THEN [g |-> g1, ret |-> "throw"]
                 ELSE [g |-> [g1 EXCEPT !.decks[r.deck] = removed.cards,
                                        !.state = "PLAYING"],
                       ret |-> "true"] :
             card \in GetRandomFromArr(ValidFirstCards(r.g, deck))} :
        r \in GetDeck(g)} :
      cur \in GetRandomFromArr([i \in 1..Len(g.players) |-> g.players[i].obj])}

\* Game.start, lines 99-128
StartGame(g) ==
    LET n == Len(g.initPlayers)
        per == g.config.playersPerDeck
        decksNeeded == (n + per - 1) \div per
        first == Len(g.cards)
        count == first + decksNeeded * DeckSize
    IN  UNION {UNION {IF r.ret = "throw" THEN {r} ELSE PickFirst(r.g) :
                      r \in DealFrom(
                          [g EXCEPT !.decks = @ \o ds,
                                    !.cards = [c \in 1..count |->
                                        IF c <= first THEN g.cards[c]
                                        ELSE DefaultObjects[((c - first - 1) % DeckSize) + 1]]],
                          1)} :
               ds \in BuildDecks(first, decksNeeded)}

\* a start() that starts a started game again
StartAgain(g) ==
    IF Len(g.initPlayers) < 2 THEN {[g |-> g, ret |-> "throw"]}
    ELSE StartGame(g)

\* Game.start
Start(g) ==
    IF Len(g.initPlayers) < 2 THEN {[g |-> g, ret |-> "throw"]}
    ELSE IF g.state # "NOT_STARTED" THEN {[g |-> g, ret |-> "throw"]}
    ELSE StartGame(g)

(***************************************************************************)
(* The driver: the configurations a game is constructed with and the calls *)
(* made on it.                                                             *)
(***************************************************************************)
Config(playersPerDeck, initialCards, stackCards) ==
    [playersPerDeck |-> playersPerDeck, initialCards |-> initialCards,
     stackCards |-> stackCards, defaultRotation |-> "CW"]

\* the players array given to the constructor: n names, or n Player objects
\* made by new Player(name)
InitPlayers(n, asPlayers) ==
    [i \in 1..n |-> [isPlayer |-> asPlayers, name |-> i, id |-> -1]]

\* a setup: the table of the build and the arguments of the constructor
Setup(table, players, config) == [table |-> table, players |-> players, config |-> config]

Setups ==
    {Setup(StackTable, InitPlayers(2, FALSE), Config(2, ic, st)) :
        ic \in 1..MaxInitialCards, st \in BOOLEAN}
    \cup {Setup(TurnTable, InitPlayers(n, FALSE), Config(MaxPlayers, 1, FALSE)) :
             n \in 2..MaxPlayers}
    \cup {Setup(PairTable, InitPlayers(2, asPlayers), Config(1, 1, TRUE)) :
             asPlayers \in BOOLEAN}
    \cup {Setup(DrawTwoTable, InitPlayers(2, FALSE), Config(2, 2, TRUE))}

\* the colors and values a driver passes to hand.getCard
PickColors == {"RED"}
PickValues == {"WILD_DRAW_FOUR", "WILD"}

AllHandCards(g) == UNION {Range(g.players[p].hand) : p \in 1..Len(g.players)}

\* the record of the last call: its arguments, what it returned and whether it
\* changed the game
Call(op, player, card, cards, force, r) ==
    [op |-> op, player |-> player, card |-> card, cards |-> cards, force |-> force,
     ret |-> r.ret, changed |-> r.g # game]

Moved(g) == IF g = game THEN moves ELSE moves + 1

\* a call is made where the call before it changed the game: a call that
\* changed nothing leaves the successors of the state before it
Ready == moves < MaxMoves /\ last.changed

InitWith(setups) ==
    /\ \E s \in setups :
         /\ cardCounts = s.table
         /\ game = NewGame(s.players, s.config)
    /\ last = [op |-> "new", player |-> 0, card |-> NoCard, cards |-> 0, force |-> FALSE,
               ret |-> "true", changed |-> TRUE]
    /\ moves = 0

Init == InitWith(Setups)

\* the driver starts a game once: it does not call start() again on a game
\* whose start() threw after building decks
StartCall ==
    /\ Ready
    /\ UNCHANGED cardCounts
    /\ game.decks = <<>> \/ game.state # "NOT_STARTED"
    /\ \E r \in Start(game) :
         /\ game' = r.g
         /\ last' = Call("start", 0, NoCard, 0, FALSE, r)
         /\ moves' = Moved(r.g)

\* the driver plays and draws on a started game, for the players of the game
PlayCall ==
    /\ Ready
    /\ UNCHANGED cardCounts
    /\ game.state # "NOT_STARTED"
    /\ \E p \in 1..Len(game.players), card \in AllHandCards(game) :
         \E r \in Play(game, p, card) :
           /\ game' = r.g
           /\ last' = Call("play", p, card, 0, FALSE, r)
           /\ moves' = Moved(r.g)

DrawCall ==
    /\ Ready
    /\ UNCHANGED cardCounts
    /\ game.state # "NOT_STARTED"
    /\ \E p \in 1..Len(game.players), cards \in 0..MaxDrawCount, force \in BOOLEAN :
         \E r \in Draw(game, p, cards, TRUE, force) :
           /\ game' = r.g
           /\ last' = Call("draw", p, NoCard, cards, force, r)
           /\ moves' = Moved(r.g)

\* the driver's player.hand.getCard(color, value), which declares the color of
\* a wild card
GetCardCall ==
    /\ Ready
    /\ UNCHANGED cardCounts
    /\ game.state # "NOT_STARTED"
    /\ \E p \in 1..Len(game.players), color \in PickColors, value \in PickValues :
         LET r == GetCard(game, game.players[p].hand, color, value)
         IN  /\ game' = r.g
             /\ last' = Call("getCard", p, r.card, 0, FALSE, r)
             /\ moves' = Moved(r.g)

Next == StartCall \/ PlayCall \/ DrawCall \/ GetCardCall

Spec == Init /\ [][Next]_vars

\* the setups start() is called on alone: every table, 1 to MaxPlayers names,
\* every playersPerDeck that builds one deck, or two decks of the smallest
\* table, initialCards from 0
StartSetups ==
    {Setup(c.t, InitPlayers(c.n, FALSE), Config(c.per, c.ic, c.st)) :
        c \in {x \in [t : CardCountTables, n : 1..MaxPlayers, per : 1..MaxPlayers,
                      ic : 0..MaxInitialCards, st : BOOLEAN] :
                 \/ (x.n + x.per - 1) \div x.per = 1
                 \/ (x.n + x.per - 1) \div x.per = 2 /\ x.t = PairTable}}

InitStart == InitWith(StartSetups)

NextStart == StartCall

SpecStart == InitStart /\ [][NextStart]_vars

(***************************************************************************)
(* Measures of a game.                                                     *)
(***************************************************************************)
RECURSIVE SumLen(_)
SumLen(seqs) == IF seqs = <<>> THEN 0 ELSE Len(Head(seqs)) + SumLen(Tail(seqs))

Hands(g) == [i \in 1..Len(g.players) |-> g.players[i].hand]

\* the cards on the discard pile: a null entry is no card
DiscardCount(g) == Len(SelectSeq(g.discardedCards, LAMBDA c : c # NoCard))

CardsInGame(g) == SumLen(g.decks) + DiscardCount(g) + SumLen(Hands(g))

\* the decks start() builds for the game's configuration
DecksNeeded(g) ==
    (Len(g.initPlayers) + g.config.playersPerDeck - 1) \div g.config.playersPerDeck

\* the discard pile was recycled: a played card lies on it alone
Recycled(g) ==
    /\ Len(g.discardedCards) = 1
    /\ Head(g.discardedCards) # NoCard
    /\ ValueOf(g, Head(g.discardedCards)) \in
          {"DRAW_TWO", "REVERSE", "SKIP", "WILD", "WILD_DRAW_FOUR"}

IsCurrent(g, p) == p \in 1..Len(g.players) /\ g.players[p].obj = g.currentPlayer

(***************************************************************************)
(* C1                                                                      *)
(***************************************************************************)
\* C1: in every state of a started game, the cards in the draw decks, on the
\* discard pile and in the hands number (decks built by start) x (size of one
\* default deck).
CardConservation ==
    game.state # "NOT_STARTED" => CardsInGame(game) = DecksNeeded(game) * DeckSize

\* a forced draw that changed the game, after the discard pile was recycled
CardConservationWitness ==
    /\ game.state # "NOT_STARTED"
    /\ last.op = "draw" /\ last.force /\ last.changed
    /\ Recycled(game)

(***************************************************************************)
(* C2                                                                      *)
(***************************************************************************)
\* C2: when start() returns, the discard pile holds exactly one card, which is
\* not BLACK and not a DRAW_TWO, REVERSE or SKIP, every hand holds initialCards
\* cards, the current player is one of the players and the state is PLAYING.
StartPostcondition ==
    (last.op = "start" /\ last.ret = "true") =>
        /\ Len(game.discardedCards) = 1
        /\ Head(game.discardedCards) # NoCard
        /\ ColorOf(game, Head(game.discardedCards)) # "BLACK"
        /\ ValueOf(game, Head(game.discardedCards)) \notin {"DRAW_TWO", "REVERSE", "SKIP"}
        /\ \A p \in 1..Len(game.players) :
              Len(game.players[p].hand) = game.config.initialCards
        /\ \E p \in 1..Len(game.players) : IsCurrent(game, p)
        /\ game.state = "PLAYING"

(***************************************************************************)
(* C3                                                                      *)
(***************************************************************************)
\* C3: a start() on a game of fewer than 2 initial players, or on a game whose
\* state is not NOT_STARTED, throws and leaves the game as it was.
StartRejected ==
    [][(last'.op = "start"
        /\ (Len(game.initPlayers) < 2 \/ game.state # "NOT_STARTED"))
       => (last'.ret = "throw" /\ game' = game)]_vars

\* a second start() has thrown on a started game
StartRejectedWitness ==
    last.op = "start" /\ last.ret = "throw" /\ game.state = "PLAYING"

(***************************************************************************)
(* C4                                                                      *)
(***************************************************************************)
\* the stacking-context of play(): stackCards is configured and the state is
\* STACK_DRAW
StackingContext(g) == g.config.stackCards /\ g.state = "STACK_DRAW"

\* play(player, card) is to be refused: the card is not in the hand, or the
\* player is not the current player, or isValidOn is false
PlayRefused(g, p, card) ==
    \/ card \notin Range(g.players[p].hand)
    \/ ~IsCurrent(g, p)
    \/ /\ ~IsValidOnThrows(g, card, GetTopCard(g.discardedCards), TRUE, StackingContext(g))
       /\ ~IsValidOn(g, card, GetTopCard(g.discardedCards), TRUE, StackingContext(g))

\* C4: a play() that is to be refused returns false and changes nothing of the
\* game: hands, decks, discard pile, current player, rotation, state, pending
\* amount and the fields of every card.
PlayRejected ==
    [][(last'.op = "play" /\ PlayRefused(game, last'.player, last'.card))
       => (last'.ret = "false" /\ game' = game)]_vars

\* the current player played a card of its hand that is not valid on the top
\* card
PlayRejectedWitness ==
    /\ last.op = "play" /\ last.ret = "false"
    /\ IsCurrent(game, last.player)
    /\ last.card \in Range(game.players[last.player].hand)

(***************************************************************************)
(* C5                                                                      *)
(***************************************************************************)
\* C5: a draw() with force = false for a player who is not the current player
\* returns false and changes nothing of the game.
DrawOutOfTurn ==
    [][(last'.op = "draw" /\ ~last'.force /\ last'.cards >= 1
        /\ ~IsCurrent(game, last'.player))
       => (last'.ret = "false" /\ game' = game)]_vars

\* such a draw was refused in state STACK_DRAW with every draw deck empty
DrawOutOfTurnWitness ==
    /\ last.op = "draw" /\ last.ret = "false" /\ ~last.force /\ last.cards >= 1
    /\ ~IsCurrent(game, last.player)
    /\ game.state = "STACK_DRAW"
    /\ SumLen(game.decks) = 0

(***************************************************************************)
(* C6                                                                      *)
(***************************************************************************)
\* C6: a play() that fails, by returning false or by raising an error, leaves
\* the game as it was before the call (the claim's statement for play(); it
\* states the same of draw()).
FailedPlayChangesNothing ==
    [][(last'.op = "play" /\ last'.ret \in {"false", "throw"}) => game' = game]_vars

(***************************************************************************)
(* C7                                                                      *)
(***************************************************************************)
\* the place of the other player of a two-player game
Other(p) == 3 - p

HoldsValue(g, p, value) == \E c \in Range(g.players[p].hand) : ValueOf(g, c) = value

\* the cards a draw can deliver: those of the draw decks and those under the
\* top card of the discard pile
Supply(g) ==
    SumLen(g.decks) + (IF Len(g.discardedCards) > 1 THEN Len(g.discardedCards) - 1 ELSE 0)

Min(a, b) == IF a < b THEN a ELSE b

\* a play() of a DRAW_TWO by place p has succeeded in a two-player game with
\* stackCards
StackPlay(p) ==
    /\ last'.op = "play" /\ last'.ret = "true" /\ last'.player = p
    /\ Len(game.players) = 2 /\ game.config.stackCards
    /\ ValueOf(game, last'.card) = "DRAW_TWO"

\* the first step of the scenario: A plays a DRAW_TWO while B holds one
FirstStack(p) ==
    (StackPlay(p) /\ game.state = "PLAYING" /\ game.stackDrawAmount = 0
     /\ HoldsValue(game, Other(p), "DRAW_TWO"))
    => /\ game'.state = "STACK_DRAW"
       /\ game'.stackDrawAmount = 2
       /\ IsCurrent(game', Other(p))

\* the second step: B plays its DRAW_TWO on a pending 2 while A holds none
SecondStack(p) ==
    /\ StackPlay(p) /\ game.state = "STACK_DRAW" /\ game.stackDrawAmount = 2
    /\ ~HoldsValue(game, Other(p), "DRAW_TWO")

Preceding(g, p, r) ==
    IF r = "CW" THEN (IF p = 1 THEN Len(g.players) ELSE p - 1)
    ELSE (IF p = Len(g.players) THEN 1 ELSE p + 1)

\* C8: a successful play of a REVERSE flips the rotation; with 2 players the
\* player who played is the current player again, with 3 or more the turn goes
\* to the player who preceded that player in the old rotation.
ReverseTurn ==
    [][(last'.op = "play" /\ last'.ret = "true"
        /\ ValueOf(game, last'.card) = "REVERSE")
       => /\ game'.rotation # game.rotation
          /\ game'.rotation \in {"CW", "CCW"}
          /\ Len(game.players) = 2 => IsCurrent(game', last'.player)
          /\ Len(game.players) >= 3 =>
                IsCurrent(game', Preceding(game, last'.player, game.rotation))]_vars

\* a REVERSE was played in a two-player game
ReverseTurnWitness ==
    /\ last.op = "play" /\ last.ret = "true"
    /\ ValueOf(game, last.card) = "REVERSE"
    /\ Len(game.players) = 2
    /\ IsCurrent(game, last.player)

(***************************************************************************)
(* C9                                                                      *)
(***************************************************************************)
\* how often card c occurs in the sequence s
Occurrences(s, c) == Cardinality({i \in 1..Len(s) : s[i] = c})

SameCards(s, t) == \A c \in Range(s) \cup Range(t) : Occurrences(s, c) = Occurrences(t, c)

\* the count a draw() goes for: the pending amount in STACK_DRAW
Wanted(g, cards) == IF g.state = "STACK_DRAW" THEN g.stackDrawAmount ELSE cards

CardToJSONThrows(g, c) == c = NoCard \/ ColorOf(g, c) = Undefined

\* Card.toJSON: an undefined or null wildPickedColor is written as null
CardToJSON(g, c) ==
    [color |-> ColorOf(g, c),
     value |-> ValueOf(g, c),
     wild |-> WildOf(g, c),
     wildPickedColor |-> IF PickedOf(g, c) \in {Undefined, NullRef}
                         THEN NullRef ELSE PickedOf(g, c)]

\* Card.fromJSON: the fields of the new card object
CardFromJSON(json) ==
    LET card == NewCard(json.color, json.value, json.wild)
    IN  IF json.wildPickedColor # NullRef
        THEN [card EXCEPT !.wildPickedColor = json.wildPickedColor]
        ELSE card

\* Deck.toJSON
DeckToJSON(g, cards) == [i \in 1..Len(cards) |-> CardToJSON(g, cards[i])]

DeckToJSONThrows(g, cards) == \E i \in 1..Len(cards) : CardToJSONThrows(g, cards[i])

\* Deck.fromJSON: the new card objects are numbered from first + 1
DeckFromJSON(json, first) == [i \in 1..Len(json) |-> first + i]

\* Player.toJSON
PlayerToJSON(g, p) ==
    [id |-> g.players[p].id, name |-> g.players[p].name,
     hand |-> DeckToJSON(g, g.players[p].hand)]

\* Player.fromJSON: a new player object obj with the hand objects from first + 1
PlayerFromJSON(json, obj, first) ==
    [NewPlayer(json.name, json.id) EXCEPT !.obj = obj,
                                          !.hand = DeckFromJSON(json.hand, first)]

\* an element of initPlayers in Game.toJSON: a Player instance is written as the
\* plain object of Player.toJSON, a string stays a string
InitPlayerToJSON(p) ==
    IF p.isPlayer THEN [kind |-> "object", name |-> p.name, id |-> p.id]
    ELSE [kind |-> "string", name |-> p.name, id |-> p.id]

ToJSONThrows(g) ==
    \/ DeckToJSONThrows(g, g.discardedCards)
    \/ \E d \in 1..Len(g.decks) : DeckToJSONThrows(g, g.decks[d])
    \/ \E p \in 1..Len(g.players) : DeckToJSONThrows(g, g.players[p].hand)

\* Game.toJSON: currentPlayer is the player object itself
ToJSON(g) ==
    IF ToJSONThrows(g) THEN [ret |-> "throw"]
    ELSE [ret |-> "json",
          json |-> [config |-> g.config,
                    initPlayers |-> [i \in 1..Len(g.initPlayers) |->
                                        InitPlayerToJSON(g.initPlayers[i])],
                    rotation |-> g.rotation,
                    currentPlayer |-> g.currentPlayer,
                    state |-> g.state,
                    discardedCards |-> DeckToJSON(g, g.discardedCards),
                    decks |-> [d \in 1..Len(g.decks) |-> DeckToJSON(g, g.decks[d])],
                    players |-> [p \in 1..Len(g.players) |-> PlayerToJSON(g, p)]]]

\* the concatenation of the sequences of seqs
RECURSIVE Flatten(_)
Flatten(seqs) == IF seqs = <<>> THEN <<>> ELSE Head(seqs) \o Flatten(Tail(seqs))

\* the validation of the Game constructor: an element that is neither a string
\* nor a Player instance is refused
ConstructorThrows(players) == \E i \in 1..Len(players) : players[i].kind = "object"

\* Game.fromJSON(json, config): the decks, the hands and the discard pile are
\* new card objects, the players new player objects, currentPlayer is the value
\* of the json, stackDrawAmount is the constructor's 0
FromJSON(json, config) ==
    IF ConstructorThrows(json.initPlayers) THEN [ret |-> "throw"]
    ELSE
    LET hands == [p \in 1..Len(json.players) |-> json.players[p].hand]
        inDecks == SumLen(json.decks)
        inHands == SumLen(hands)
        all == Flatten(json.decks) \o Flatten(hands) \o json.discardedCards
        new == NewGame([i \in 1..Len(json.initPlayers) |->
                           [isPlayer |-> FALSE, name |-> json.initPlayers[i].name,
                            id |-> json.initPlayers[i].id]],
                       config)
    IN  [ret |-> "game",
         g |-> [new EXCEPT
                  !.rotation = json.rotation,
                  !.currentPlayer = json.currentPlayer,
                  !.decks = [d \in 1..Len(json.decks) |->
                                DeckFromJSON(json.decks[d],
                                             SumLen(SubSeq(json.decks, 1, d - 1)))],
                  !.players = [p \in 1..Len(json.players) |->
                                  PlayerFromJSON(json.players[p],
                                                 Len(json.players) + p,
                                                 inDecks + SumLen(SubSeq(hands, 1, p - 1)))],
                  !.discardedCards = DeckFromJSON(json.discardedCards, inDecks + inHands),
                  !.state = json.state,
                  !.cards = [c \in 1..Len(all) |-> CardFromJSON(all[c])]]]

(***************************************************************************)
(* C10                                                                     *)
(***************************************************************************)
\* the cards of a deck as their color, value, wild flag and picked color
Contents(g, cards) == [i \in 1..Len(cards) |-> g.cards[cards[i]]]

\* the restored game r shows what the game g shows
Equivalent(g, r) ==
    /\ Len(r.players) = Len(g.players)
    /\ \A p \in 1..Len(g.players) :
          /\ r.players[p].id = g.players[p].id
          /\ r.players[p].name = g.players[p].name
          /\ Contents(r, r.players[p].hand) = Contents(g, g.players[p].hand)
    /\ Len(r.decks) = Len(g.decks)
    /\ \A d \in 1..Len(g.decks) : Contents(r, r.decks[d]) = Contents(g, g.decks[d])
    /\ Contents(r, r.discardedCards) = Contents(g, g.discardedCards)
    /\ r.rotation = g.rotation
    /\ r.state = g.state

\* C10: for every state of a started game, Game.fromJSON(g.toJSON()) succeeds
\* and yields a game with the same players, hands, draw decks, discard pile,
\* rotation and state.
RoundTrip ==
    game.state # "NOT_STARTED" =>
        /\ ToJSON(game).ret = "json"
        /\ FromJSON(ToJSON(game).json, game.config).ret = "game"
        /\ Equivalent(game, FromJSON(ToJSON(game).json, game.config).g)

(***************************************************************************)
(* C11                                                                     *)
(***************************************************************************)
\* the place in game.players of the player whose turn it is, 0 when
\* currentPlayer is no element of the list
TurnHolder(g) == IndexOf(g, g.currentPlayer) + 1

\* what a caller sees of a call's outcome: the value returned, the turn holder,
\* the hand sizes, the state and the pending amount
Observed(r) ==
    [ret |-> r.ret,
     turn |-> TurnHolder(r.g),
     hands |-> [p \in 1..Len(r.g.players) |-> Len(r.g.players[p].hand)],
     state |-> r.g.state,
     stackDrawAmount |-> r.g.stackDrawAmount]

\* the game Game.fromJSON(g.toJSON()) returns
Restored(g) == FromJSON(ToJSON(g).json, g.config).g

CanRestore(g) ==
    /\ ToJSON(g).ret = "json"
    /\ FromJSON(ToJSON(g).json, g.config).ret = "game"

\* C11: for every state of a started game that can be restored, every draw()
\* and every play() of a card of a hand gives on the restored game the return
\* values, turn holder, hand sizes, state and pending amount it gives on the
\* game itself (the claim's statement for sequences of one call).
ResumesLikeOriginal ==
    (game.state # "NOT_STARTED" /\ CanRestore(game)) =>
        /\ TurnHolder(Restored(game)) = TurnHolder(game)
        /\ Restored(game).stackDrawAmount = game.stackDrawAmount
        /\ \A p \in 1..Len(game.players) :
              /\ \A cards \in 1..MaxDrawCount :
                    {Observed(r) : r \in Draw(Restored(game), p, cards, TRUE, FALSE)}
                      = {Observed(r) : r \in Draw(game, p, cards, TRUE, FALSE)}
              /\ \A k \in 1..Len(game.players[p].hand) :
                    {Observed(r) : r \in Play(Restored(game), p,
                                               Restored(game).players[p].hand[k])}
                      = {Observed(r) : r \in Play(game, p, game.players[p].hand[k])}

(***************************************************************************)
(* Card.isValidOn on its own: a card in a hand and a top card.             *)
(***************************************************************************)
\* the cards Deck.insertDefaultCards constructs for a table with two colors,
\* the values the rules tell apart and both wild values
FreshCards ==
    {NewCard(color, value, FALSE) :
        color \in {"RED", "BLUE"}, value \in {"FIVE", "SIX", "DRAW_TWO"}}
    \cup {NewCard("BLACK", value, TRUE) : value \in {"WILD", "WILD_DRAW_FOUR"}}

\* the cards that lie on a discard pile: a card that is not wild, or a wild card
\* that play() gave the color picked for it
PlayedCards ==
    {c \in FreshCards : ~c.wild}
    \cup {[c EXCEPT !.color = picked, !.wildPickedColor = picked] :
             c \in {x \in FreshCards : x.wild}, picked \in {"RED", "BLUE"}}

\* the object of the card in the hand and of the top card
ThisCard == 1
TopCard == 2

\* a game of one player who holds ThisCard, with a top card or none
CardGame(this, top, hasTop) ==
    [NewGame(<<>>, Config(1, 1, TRUE)) EXCEPT
        !.cards = <<this, top>>,
        !.players = <<[NewPlayer(1, 0) EXCEPT !.obj = 1, !.hand = <<ThisCard>>]>>,
        !.discardedCards = IF hasTop THEN <<TopCard>> ELSE <<>>]

InitCard ==
    /\ cardCounts = PairTable
    /\ \E this \in FreshCards, top \in PlayedCards, hasTop \in BOOLEAN :
          game = CardGame(this, top, hasTop)
    /\ last = [op |-> "new", toPlay |-> FALSE, isStacking |-> FALSE, ret |-> "true"]
    /\ moves = 0

\* hand.getCard(color, value) for the card of the hand: the driver's pick of a
\* color, or #gameLogic's look for a card to stack (color undefined)
PickCall ==
    /\ UNCHANGED <<cardCounts, moves>>
    /\ \E color \in {"RED", "BLUE", Undefined} :
         LET r == GetCard(game, game.players[1].hand, color, ValueOf(game, ThisCard))
         IN  /\ game' = r.g
             /\ last' = [op |-> "getCard", toPlay |-> FALSE, isStacking |-> FALSE,
                         ret |-> r.ret]

\* card.isValidOn(top, toPlay, isStacking) for the card of the hand
IsValidOnCall ==
    /\ UNCHANGED <<cardCounts, moves, game>>
    /\ \E toPlay \in BOOLEAN, isStacking \in BOOLEAN :
         LET top == GetTopCard(game.discardedCards)
         IN  last' = [op |-> "isValidOn", toPlay |-> toPlay, isStacking |-> isStacking,
                      ret |-> IF IsValidOnThrows(game, ThisCard, top, toPlay, isStacking)
                              THEN "throw"
                              ELSE IF IsValidOn(game, ThisCard, top, toPlay, isStacking)
                                   THEN "true" ELSE "false"]

NextCard == PickCall \/ IsValidOnCall

SpecCard == InitCard /\ [][NextCard]_vars

(***************************************************************************)
(* C12                                                                     *)
(***************************************************************************)
HasTop == game.discardedCards # <<>>

This == game.cards[ThisCard]

Top == game.cards[TopCard]

\* the precedence of the rules, for the call recorded in last
Precedence ==
    IF ~HasTop THEN FALSE
    ELSE IF last.isStacking
         THEN This.value \in {"DRAW_TWO", "WILD_DRAW_FOUR"} /\ Top.value = This.value
    ELSE IF This.wild /\ Top.wild THEN FALSE
    ELSE IF This.wild /\ ~last.toPlay THEN TRUE
    ELSE IF This.wild THEN This.wildPickedColor # "BLACK"
    ELSE This.color = Top.color \/ This.value = Top.value

Answer(b) == IF b THEN "true" ELSE "false"

\* C12: isValidOn returns what the precedence gives: no top card, stacking
\* mode, wild on wild, wild shown, wild committed, color or value; so a
\* WILD_DRAW_FOUR is not valid on a DRAW_TWO while stacking, and a RED FIVE is
\* valid on every RED card and every FIVE and not on a BLUE SIX.
IsValidOnPrecedence ==
    last.op = "isValidOn" =>
        /\ last.ret = Answer(Precedence)
        /\ (HasTop /\ last.isStacking /\ This.value = "WILD_DRAW_FOUR"
            /\ Top.value = "DRAW_TWO") => last.ret = "false"
        /\ (HasTop /\ ~last.isStacking /\ This.color = "RED" /\ This.value = "FIVE") =>
              /\ (Top.color = "RED" \/ Top.value = "FIVE") => last.ret = "true"
              /\ (Top.color = "BLUE" /\ Top.value = "SIX") => last.ret = "false"

\* a WILD_DRAW_FOUR with a color picked was tested on a DRAW_TWO while stacking
IsValidOnPrecedenceWitness ==
    /\ last.op = "isValidOn" /\ last.isStacking /\ last.toPlay /\ HasTop
    /\ This.value = "WILD_DRAW_FOUR" /\ This.wildPickedColor = "RED"
    /\ Top.value = "DRAW_TWO"
    /\ last.ret = "false"

(***************************************************************************)
(* C13                                                                     *)
(***************************************************************************)
\* a wild card whose picked color is still BLACK was tested on a top card
\* outside the stacking mode
UnpickedWildTested ==
    /\ last.op = "isValidOn" /\ ~last.isStacking /\ HasTop
    /\ This.wild /\ This.wildPickedColor = "BLACK"

\* the claim as stated: on every top card, false to commit and true to show
UnpickedWildAsClaimed ==
    UnpickedWildTested => last.ret = Answer(~last.toPlay)

\* C13: a wild card whose picked color is still BLACK is, outside the stacking
\* mode, not valid to commit on any top card; to show it is valid on every top
\* card that is not wild and not valid on a wild top card.
UnpickedWild ==
    UnpickedWildTested => last.ret = Answer(~last.toPlay /\ ~Top.wild)

\* such a card was shown on a wild top card and found not valid
UnpickedWildWitness ==
    /\ UnpickedWildTested /\ ~last.toPlay
    /\ Top.wild
    /\ last.ret = "false"

(***************************************************************************)
(* Game.getNextPlayer called by a driver.                                  *)
(***************************************************************************)
\* a value that is no Player instance and not null: a name, a plain object
NotAPlayer == -1

\* a Player object that is none of game.players
StrangerOf(g) == Len(g.players) + 1

\* Game.getNextPlayer, its two checks: the rotation token and the type of
\* currentPlayer
GetNextPlayerThrows(g, rotation, currentPlayer) ==
    \/ rotation \notin {"CW", "CCW"}
    \/ currentPlayer = NotAPlayer

\* the games getNextPlayer is called on: started with 2 to MaxPlayers names
NextSetups ==
    {Setup(TurnTable, InitPlayers(n, FALSE), Config(MaxPlayers, 1, FALSE)) :
        n \in 2..MaxPlayers}

InitNext == InitWith(NextSetups)

\* game.getNextPlayer(rotation, currentPlayer) on a started game: ret is
\* "throw" or "player", next the place of the player returned
GetNextPlayerCall ==
    /\ UNCHANGED <<cardCounts, game, moves>>
    /\ game.state # "NOT_STARTED"
    /\ \E rotation \in {"CW", "CCW", "UP"},
          currentPlayer \in {NoPlayer, NotAPlayer, StrangerOf(game)}
                              \cup {game.players[p].obj : p \in 1..Len(game.players)} :
         IF GetNextPlayerThrows(game, rotation, currentPlayer)
         THEN last' = [op |-> "getNextPlayer", rotation |-> rotation,
                       currentPlayer |-> currentPlayer, ret |-> "throw", next |-> 0,
                       changed |-> FALSE]
         ELSE \E next \in GetNextPlayer(game, rotation, currentPlayer) :
                last' = [op |-> "getNextPlayer", rotation |-> rotation,
                         currentPlayer |-> currentPlayer, ret |-> "player",
                         next |-> next, changed |-> FALSE]

NextNext == StartCall \/ GetNextPlayerCall

SpecNext == InitNext /\ [][NextNext]_vars

(***************************************************************************)
(* C14                                                                     *)
(***************************************************************************)
\* C14: getNextPlayer throws whenever the rotation is neither CW nor CCW and
\* whenever currentPlayer is neither null nor one of game.players.
GetNextPlayerRejects ==
    last.op = "getNextPlayer" =>
        /\ last.rotation \notin {"CW", "CCW"} => last.ret = "throw"
        /\ (last.currentPlayer # NoPlayer /\ IndexOf(game, last.currentPlayer) = -1)
              => last.ret = "throw"

(***************************************************************************)
(* C15                                                                     *)
(***************************************************************************)
\* C15: hand.removeCard(card) in a successful play() removes the very card
\* object played, which is in the hand: afterwards the hand is the hand before
\* without that object, and one card shorter.
RemovesTheInstance ==
    [][(last'.op = "play" /\ last'.ret = "true")
       => LET before == game.players[last'.player].hand
              after == game'.players[last'.player].hand
          IN  /\ last'.card \in Range(before)
              /\ Len(after) = Len(before) - 1
              /\ after = SelectSeq(before, LAMBDA c : c # last'.card)]_vars

(***************************************************************************)
(* C16                                                                     *)
(***************************************************************************)
\* C16: a draw() with a count of 0 or less returns false, raises no error and
\* leaves the game as it was.
NonPositiveDrawReturnsFalse ==
    [][(last'.op = "draw" /\ last'.cards < 1)
       => (last'.ret = "false" /\ game' = game)]_vars

(***************************************************************************)
(* Any sequence of calls: start(), play() and draw() in every state, also  *)
(* on a game whose start() threw after it had built decks and dealt.       *)
(***************************************************************************)
\* two players of two cards each on the table with 5 cards: start() throws when
\* the only valid first card was dealt
AnySetups == {Setup(StackTable, InitPlayers(2, FALSE), Config(2, 2, TRUE))}

InitAny == InitWith(AnySetups)

\* the calls of this specification number one less than the driver's: a second
\* start() doubles the players and the cards
ReadyAny == moves < MaxMoves - 2 /\ last.changed

StartAnyCall ==
    /\ ReadyAny
    /\ UNCHANGED cardCounts
    /\ \E r \in Start(game) :
         /\ game' = r.g
         /\ last' = Call("start", 0, NoCard, 0, FALSE, r)
         /\ moves' = Moved(r.g)

PlayAnyCall ==
    /\ ReadyAny
    /\ UNCHANGED cardCounts
    /\ \E p \in 1..Len(game.players), card \in AllHandCards(game) :
         \E r \in Play(game, p, card) :
           /\ game' = r.g
           /\ last' = Call("play", p, card, 0, FALSE, r)
           /\ moves' = Moved(r.g)

\* the draws of this specification are of one card or of none
DrawAnyCall ==
    /\ ReadyAny
    /\ UNCHANGED cardCounts
    /\ \E p \in 1..Len(game.players), cards \in 0..1, force \in BOOLEAN :
         \E r \in Draw(game, p, cards, TRUE, force) :
           /\ game' = r.g
           /\ last' = Call("draw", p, NoCard, cards, force, r)
           /\ moves' = Moved(r.g)

NextAny == StartAnyCall \/ PlayAnyCall \/ DrawAnyCall

SpecAny == InitAny /\ [][NextAny]_vars

Following(g, p, r) ==
    IF r = "CW" THEN (IF p = Len(g.players) THEN 1 ELSE p + 1)
    ELSE (IF p = 1 THEN Len(g.players) ELSE p - 1)

\* C18: a successful play of a SKIP leaves the rotation as it was, makes the
\* player two seats along the rotation from the one who played the current
\* player (with 2 players the one who played), and leaves the hand of the
\* skipped player as it was.
SkipTurn ==
    [][(last'.op = "play" /\ last'.ret = "true"
        /\ ValueOf(game, last'.card) = "SKIP")
       => LET skipped == Following(game, last'.player, game.rotation)
          IN  /\ game'.rotation = game.rotation
              /\ IsCurrent(game', Following(game, skipped, game.rotation))
              /\ Len(game.players) = 2 => IsCurrent(game', last'.player)
              /\ game'.players[skipped].hand = game.players[skipped].hand]_vars

\* a SKIP was played among three players and the turn is with the third
SkipTurnWitness ==
    /\ last.op = "play" /\ last.ret = "true"
    /\ game.discardedCards # <<>>
    /\ Head(game.discardedCards) = last.card
    /\ ValueOf(game, last.card) = "SKIP"
    /\ Len(game.players) = 3
    /\ ~IsCurrent(game, last.player)
    /\ ~IsCurrent(game, Following(game, last.player, game.rotation))

(***************************************************************************)
(* C19                                                                     *)
(***************************************************************************)
\* the cards a DRAW_TWO or a WILD_DRAW_FOUR adds to the pending amount
AmountOf(value) == IF value = "DRAW_TWO" THEN 2 ELSE 4

\* the cards a draw card played on game g forces on the next player
Due(g, value) ==
    IF g.state = "STACK_DRAW" THEN g.stackDrawAmount + AmountOf(value)
    ELSE AmountOf(value)

\* a play of a DRAW_TWO or WILD_DRAW_FOUR is about to succeed on a game where
\* stacking is disabled or the next player holds no card of that value
ForcedDrawPlayed ==
    /\ last'.op = "play" /\ last'.ret = "true"
    /\ ValueOf(game, last'.card) \in {"DRAW_TWO", "WILD_DRAW_FOUR"}
    /\ \/ ~game.config.stackCards
       \/ ~HoldsValue(game, Following(game, last'.player, game.rotation),
                      ValueOf(game, last'.card))

StackedPlayed ==
    /\ last'.op = "play" /\ last'.ret = "true"
    /\ ValueOf(game, last'.card) \in {"DRAW_TWO", "WILD_DRAW_FOUR"}
    /\ game.config.stackCards
    /\ HoldsValue(game, Following(game, last'.player, game.rotation),
                  ValueOf(game, last'.card))

\* C20: with stackCards, a DRAW_TWO or WILD_DRAW_FOUR played on a next player
\* who holds a card of the same value adds 2 or 4 to the pending amount and
\* leaves the state STACK_DRAW; no player draws (the draw decks, the pile under
\* the played card and every hand but the player's are as they were, the
\* player's hand is one card shorter); the next player is the current player.
StackGrows ==
    [][StackedPlayed
       => LET next == Following(game, last'.player, game.rotation)
          IN  /\ game'.stackDrawAmount
                   = game.stackDrawAmount + AmountOf(ValueOf(game, last'.card))
              /\ game'.state = "STACK_DRAW"
              /\ game'.decks = game.decks
              /\ game'.discardedCards = AddCard(game.discardedCards, last'.card)
              /\ \A q \in 1..Len(game.players) :
                    IF q = last'.player
                    THEN Len(game'.players[q].hand) = Len(game.players[q].hand) - 1
                    ELSE game'.players[q].hand = game.players[q].hand
              /\ IsCurrent(game', next)]_vars

\* a second DRAW_TWO was stacked on a pending one: 4 cards are pending and the
\* turn is with a player who holds a third
StackGrowsWitness ==
    /\ last.op = "play" /\ last.ret = "true"
    /\ game.discardedCards # <<>>
    /\ Head(game.discardedCards) = last.card
    /\ ValueOf(game, last.card) = "DRAW_TWO"
    /\ game.state = "STACK_DRAW"
    /\ game.stackDrawAmount = 4
    /\ ~IsCurrent(game, last.player)
    /\ IsCurrent(game, Following(game, last.player, game.rotation))
    /\ HoldsValue(game, Following(game, last.player, game.rotation), "DRAW_TWO")

(***************************************************************************)
(* C21                                                                     *)
(***************************************************************************)
\* C21: a draw() of the current player in STACK_DRAW, whatever positive count
\* it is called with, delivers the pending amount (as far as the draw decks
\* and the discard pile under its top card hold it) and returns true when it
\* delivered it all; afterwards the state is PLAYING, the pending amount is 0
\* and the turn is with the next player in rotation.
AbsorbStack ==
    [][(/\ last'.op = "draw" /\ last'.cards >= 1
        /\ game.state = "STACK_DRAW"
        /\ IsCurrent(game, last'.player))
       => LET p == last'.player
              given == Min(game.stackDrawAmount, Supply(game))
          IN  /\ Len(game'.players[p].hand) = Len(game.players[p].hand) + given
              /\ last'.ret = (IF given = game.stackDrawAmount THEN "true" ELSE "false")
              /\ game'.state = "PLAYING"
              /\ game'.stackDrawAmount = 0
              /\ IsCurrent(game', Following(game, p, game.rotation))]_vars

\* a player who holds a DRAW_TWO called draw() for 1 card on a stack of 2 and
\* got the 2 cards that were left, those under the top card included
AbsorbStackWitness ==
    /\ last.op = "draw" /\ last.ret = "true" /\ last.cards = 1
    /\ moves = 4
    /\ game.config.initialCards = 1
    /\ Len(game.players) = 2
    /\ Len(game.discardedCards) = 1
    /\ ValueOf(game, Head(game.discardedCards)) = "DRAW_TWO"
    /\ SumLen(game.decks) = 0
    /\ game.state = "PLAYING" /\ game.stackDrawAmount = 0
    /\ Len(game.players[last.player].hand) = 3
    /\ HoldsValue(game, last.player, "DRAW_TWO")
    /\ ~IsCurrent(game, last.player)

(***************************************************************************)
(* C22                                                                     *)
(***************************************************************************)
\* the entries of the discard pile under its top card
Under(g) == IF g.discardedCards = <<>> THEN <<>> ELSE Tail(g.discardedCards)

\* a draw() of 1 or more cards is about to be let through: forced, or by the
\* current player
DrawPermitted ==
    /\ last'.op = "draw" /\ last'.cards >= 1
    /\ last'.force \/ IsCurrent(game, last'.player)

\* C22: a draw() that is let through ends without an error; when it goes for
\* c cards, with D cards in the draw decks and P on the discard
\* pile, puts min(c, D + max(0, P - 1)) cards on the player's hand, all of them
\* entries of the draw decks or of the pile under its top card, leaves the top
\* card of the discard pile where it is and the other hands as they were,
\* returns true exactly when it delivered c cards, and returns false,
\* delivering nothing, when the decks and the pile under the top card are
\* empty.
DrawDelivers ==
    [][DrawPermitted
          => LET p == last'.player
                 c == Wanted(game, last'.cards)
                 drawn == Len(game'.players[p].hand) - Len(game.players[p].hand)
                 top == GetTopCard(game.discardedCards)
             IN  /\ drawn = Min(c, Supply(game))
                 /\ last'.ret = (IF drawn = c THEN "true" ELSE "false")
                 /\ GetTopCard(game'.discardedCards) = top
                 /\ SubSeq(game'.players[p].hand, drawn + 1, Len(game'.players[p].hand))
                      = game.players[p].hand
                 /\ SameCards(Flatten(game'.decks) \o Under(game')
                                 \o SubSeq(game'.players[p].hand, 1, drawn),
                              Flatten(game.decks) \o Under(game))
                 /\ \A q \in 1..Len(game.players) :
                       q # p => game'.players[q].hand = game.players[q].hand]_vars

\* a draw came short: it emptied the draw decks and the discard pile under
\* its top card and returned false
DrawDeliversWitness ==
    /\ last.op = "draw" /\ last.ret = "false" /\ last.changed
    /\ last.cards >= 1
    /\ SumLen(game.decks) = 0
    /\ Len(game.discardedCards) = 1
    /\ Head(game.discardedCards) # NoCard
    /\ Len(game.decks) = 1

(***************************************************************************)
(* C23                                                                     *)
(***************************************************************************)
RealColors == {"RED", "GREEN", "BLUE", "YELLOW"}

\* C23: in a started game the top card of the discard pile has one of the
\* colors RED, GREEN, BLUE, YELLOW.
TopCardHasRealColor ==
    (/\ game.state # "NOT_STARTED"
     /\ GetTopCard(game.discardedCards) # NoCard)
    => ColorOf(game, GetTopCard(game.discardedCards)) \in RealColors

(***************************************************************************)
(* C24                                                                     *)
(***************************************************************************)
\* hand t is hand s with cards added on top
GrownFrom(t, s) ==
    /\ Len(t) >= Len(s)
    /\ SubSeq(t, Len(t) - Len(s) + 1, Len(t)) = s

\* C24: a play() or draw() of one player leaves the color, value, wild flag
\* and wildPickedColor of every card in another player's hand as they were,
\* and changes another player's hand only by adding cards to it.
OtherHandsKept ==
    [][(last'.op \in {"play", "draw"} /\ last'.ret # "throw")
       => \A q \in 1..Len(game.players) :
             q # last'.player =>
                /\ GrownFrom(game'.players[q].hand, game.players[q].hand)
                /\ \A c \in Range(game.players[q].hand) :
                      c # NoCard => game'.cards[c] = game.cards[c]]_vars

====
